---- MODULE Spec2Model ----
(***************************************************************************)
(* A model of src/libs.rs: a wrapper that runs the svn command line tool   *)
(* as a subprocess and parses the text of `svn info` and `svn status`.     *)
(*                                                                         *)
(* Text is a sequence of bytes.  An ASCII byte is written as the one       *)
(* character string of its character, except line feed ("LF") and carriage *)
(* return ("CR").  The other bytes are written in hexadecimal: "C3" "A9"   *)
(* is the two byte UTF-8 encoding of U+00E9, "FF" is a byte that occurs in *)
(* no UTF-8 text, and "EF" "BF" "BD" is the encoding of U+FFFD.            *)
(***************************************************************************)
EXTENDS Integers, Sequences, FiniteSets, TLC

VARIABLES pc, op, runs, output, result

vars == <<pc, op, runs, output, result>>

---------------------------------------------------------------------------
(* Bytes and UTF-8 *)

Lead2 == {"C3"}
Lead3 == {"EF"}
Cont == {"A9", "BF", "BD"}
Replacement == <<"EF", "BF", "BD">>

\* The concatenation of a sequence of sequences.
RECURSIVE Concat(_)
Concat(ss) ==
    IF Len(ss) = 0 THEN <<>>
    ELSE IF Len(ss) = 1 THEN ss[1]
    ELSE LET h == Len(ss) \div 2
         IN Concat(SubSeq(ss, 1, h)) \o Concat(SubSeq(ss, h + 1, Len(ss)))

ByteAt(b, j) == IF j >= 1 /\ j <= Len(b) THEN b[j] ELSE "end"

\* What byte i of b becomes in String::from_utf8_lossy(b): itself inside a
\* well formed character, U+FFFD where an ill formed part starts, and nothing
\* further inside an ill formed part.
DecodedAt(b, i) ==
    LET c == b[i]
    IN CASE c \in Lead2 ->
              IF ByteAt(b, i + 1) \in Cont THEN <<c>> ELSE Replacement
         [] c \in Lead3 ->
              IF ByteAt(b, i + 1) \in Cont /\ ByteAt(b, i + 2) \in Cont
              THEN <<c>> ELSE Replacement
         [] c \in Cont ->
              IF ByteAt(b, i - 1) \in Lead2 THEN <<c>>
              ELSE IF ByteAt(b, i - 1) \in Lead3
                   THEN (IF ByteAt(b, i + 1) \in Cont THEN <<c>> ELSE <<>>)
              ELSE IF ByteAt(b, i - 2) \in Lead3 /\ ByteAt(b, i - 1) \in Cont
                   THEN <<c>>
              ELSE Replacement
         [] c = "FF" -> Replacement
         [] OTHER -> <<c>>

\* String::from_utf8_lossy
FromUtf8Lossy(b) == Concat([i \in 1..Len(b) |-> DecodedAt(b, i)])

\* str::is_char_boundary, for a byte offset i counted from 0.
IsCharBoundary(s, i) ==
    \/ i = 0
    \/ i = Len(s)
    \/ i < Len(s) /\ s[i + 1] \notin Cont

\* The slice s[n..]: a panic when n is past the end or inside a character.
SliceFrom(s, n) ==
    IF n > Len(s) \/ ~IsCharBoundary(s, n)
    THEN [panic |-> TRUE, val |-> <<>>]
    ELSE [panic |-> FALSE, val |-> SubSeq(s, n + 1, Len(s))]

\* str::starts_with
StartsWith(line, label) ==
    /\ Len(line) >= Len(label)
    /\ SubSeq(line, 1, Len(label)) = label

\* The parts of s between the bytes equal to sep: one more part than there
\* are such bytes.
Pieces(s, sep) ==
    LET at == {i \in 1..Len(s) : s[i] = sep}
        n == Cardinality(at)
        pos == [k \in 0..(n + 1) |->
                   IF k = 0 THEN 0
                   ELSE IF k = n + 1 THEN Len(s) + 1
                   ELSE CHOOSE i \in at : Cardinality({j \in at : j < i}) = k - 1]
    IN [k \in 1..(n + 1) |-> SubSeq(s, pos[k - 1] + 1, pos[k] - 1)]

\* str::lines: the text is cut after every line feed; a line loses its line
\* feed and then a carriage return that stood before it; no line follows the
\* last line feed.
Lines(s) ==
    LET p == Pieces(s, "LF")
        n == Len(p)
        m == IF p[n] = <<>> THEN n - 1 ELSE n
    IN [k \in 1..m |->
           IF k < n /\ p[k] # <<>> /\ p[k][Len(p[k])] = "CR"
           THEN SubSeq(p[k], 1, Len(p[k]) - 1)
           ELSE p[k]]

\* str::split(' ')
Split(s) == Pieces(s, " ")

---------------------------------------------------------------------------
(* u32 parsing *)

\* A u32 is written as its decimal digits without leading zeros: the numbers
\* above 2^31 are u32 values too.
U32MaxDigits == <<"4", "2", "9", "4", "9", "6", "7", "2", "9", "5">>

Digits == {"0", "1", "2", "3", "4", "5", "6", "7", "8", "9"}

DigitVal(c) ==
    CASE c = "0" -> 0 [] c = "1" -> 1 [] c = "2" -> 2 [] c = "3" -> 3
      [] c = "4" -> 4 [] c = "5" -> 5 [] c = "6" -> 6 [] c = "7" -> 7
      [] c = "8" -> 8 [] c = "9" -> 9

StripZeros(d) ==
    LET nz == {i \in 1..Len(d) : d[i] # "0"}
    IN IF nz = {} THEN <<"0">>
       ELSE SubSeq(d, CHOOSE i \in nz : \A j \in nz : i <= j, Len(d))

\* a <= b for two digit strings of one length
DigitsLeq(a, b) ==
    \/ a = b
    \/ \E i \in 1..Len(a) :
          /\ SubSeq(a, 1, i - 1) = SubSeq(b, 1, i - 1)
          /\ DigitVal(a[i]) < DigitVal(b[i])

FitsU32(d) ==
    Len(d) < Len(U32MaxDigits)
        \/ (Len(d) = Len(U32MaxDigits) /\ DigitsLeq(d, U32MaxDigits))

None == [tag |-> "None", val |-> <<>>]
Some(v) == [tag |-> "Some", val |-> v]
Panicked == [tag |-> "Panic", val |-> <<>>]

\* The number the digits d stand for; None at a byte that is no digit and
\* when the number passes u32::MAX.
ParseDigits(d) ==
    IF d = <<>> \/ \E i \in 1..Len(d) : d[i] \notin Digits THEN None
    ELSE IF ~FitsU32(StripZeros(d)) THEN None
    ELSE Some(StripZeros(d))

\* str::parse::<u32>().ok(): digits, after at most one "+".
ParseU32(s) ==
    IF s = <<>> THEN None
    ELSE IF s[1] = "+" THEN ParseDigits(Tail(s))
    ELSE ParseDigits(s)

---------------------------------------------------------------------------
(* The subprocess *)

\* std::process::Output::status.success()
Success(status) == status = 0

\* io::Error::to_string() of the error of a failed spawn.
IoErrorToString(e) ==
    IF e = "NotFound"
    THEN <<"N", "o", " ", "s", "u", "c", "h", " ", "f", "i", "l", "e", " ",
           "o", "r", " ", "d", "i", "r", "e", "c", "t", "o", "r", "y", " ",
           "(", "o", "s", " ", "e", "r", "r", "o", "r", " ", "2", ")">>
    ELSE <<"P", "e", "r", "m", "i", "s", "s", "i", "o", "n", " ", "d", "e",
           "n", "i", "e", "d", " ", "(", "o", "s", " ", "e", "r", "r", "o",
           "r", " ", "1", "3", ")">>

\* Results: Ok(v), Err(SvnError::CommandFailed(text)), or a panic.
Ok(v) == [kind |-> "Ok", val |-> v]
Err(text) == [kind |-> "Err", val |-> text]
Panic == [kind |-> "Panic", val |-> <<>>]
NoResult == [kind |-> "None", val |-> <<>>]
Unit == <<>>

\* .map_err(|e| SvnError::CommandFailed(e.to_string()))?
SpawnFailed(out) == Err(IoErrorToString(out.error))

\* A slip: the text of the wrong stream.
CommandFailedStdout(out) == Err(FromUtf8Lossy(out.stdout))

\* SvnError::CommandFailed(String::from_utf8_lossy(&output.stderr).to_string())
CommandFailed(out) == Err(FromUtf8Lossy(out.stderr))

\* The shared head of every Result-returning operation: the spawn error, then
\* the exit status, then the operation's own success value.
Checked(out, value) ==
    IF ~out.spawned THEN SpawnFailed(out)
    ELSE IF ~Success(out.status) THEN CommandFailed(out)
    ELSE value

---------------------------------------------------------------------------
(* version and SvnWrapper *)

\* .expect("Failed to execute command") panics when the spawn fails; the exit
\* status is not looked at.
VersionResult(out) ==
    IF ~out.spawned THEN Panic ELSE Ok(FromUtf8Lossy(out.stdout))

\* A slip: log without the check of the exit status, as version is written.
LogResultUnchecked(out) ==
    IF ~out.spawned THEN SpawnFailed(out) ELSE Ok(FromUtf8Lossy(out.stdout))

CommitResult(out) == Checked(out, Ok(Unit))
CheckoutResult(out) == Checked(out, Ok(Unit))
UpdateResult(out) == Checked(out, Ok(Unit))
LogResult(out) == Checked(out, Ok(FromUtf8Lossy(out.stdout)))

VersionArgv == <<"svn", "--version">>
CommitArgv(path) == <<"svn", "commit", "-m", "\"Committed changes\"", path>>
CheckoutArgv(url, path) == <<"svn", "checkout", url, path>>
UpdateArgv(path) == <<"svn", "update", path>>
LogArgv(path) == <<"svn", "log", path>>
InfoArgv(path) == <<"svn", "info", path>>
StatusArgv(path) == <<"svn", "status", "--show-updates", path>>

---------------------------------------------------------------------------
(* SvnInfo::new *)

LabelUrl == <<"U", "R", "L", ":", " ">>
LabelRoot ==
    <<"R", "e", "p", "o", "s", "i", "t", "o", "r", "y", " ", "R", "o", "o",
      "t", ":", " ">>
LabelAuthor ==
    <<"L", "a", "s", "t", " ", "C", "h", "a", "n", "g", "e", "d", " ", "A",
      "u", "t", "h", "o", "r", ":", " ">>
LabelRev ==
    <<"L", "a", "s", "t", " ", "C", "h", "a", "n", "g", "e", "d", " ", "R",
      "e", "v", ":", " ">>
LabelDate ==
    <<"L", "a", "s", "t", " ", "C", "h", "a", "n", "g", "e", "d", " ", "D",
      "a", "t", "e", ":", " ">>

\* The offsets the five slices are taken at.
OffUrl == 5
OffRoot == 17
OffAuthor == 22
OffRev == 19
OffDate == 20

ParseErrorText ==
    <<"U", "n", "a", "b", "l", "e", " ", "t", "o", " ", "p", "a", "r", "s",
      "e", " ", "s", "v", "n", " ", "i", "n", "f", "o", " ", "o", "u", "t",
      "p", "u", "t">>

\* Iterator::find(|line| line.starts_with(label)): the index of the first
\* line from i on that starts with the label, 0 when there is none.
RECURSIVE FindFrom(_, _, _)
FindFrom(lines, label, i) ==
    IF i > Len(lines) THEN 0
    ELSE IF StartsWith(lines[i], label) THEN i
    ELSE FindFrom(lines, label, i + 1)

Find(lines, label) == FindFrom(lines, label, 1)

\* .find(..).map(|line| line[off..].to_owned())
FieldStr(lines, label, off) ==
    LET i == Find(lines, label)
    IN IF i = 0 THEN None
       ELSE LET sl == SliceFrom(lines[i], off)
            IN IF sl.panic THEN Panicked ELSE Some(sl.val)

\* .find(..).and_then(|line| line[off..].parse::<u32>().ok())
FieldRev(lines, label, off) ==
    LET i == Find(lines, label)
    IN IF i = 0 THEN None
       ELSE LET sl == SliceFrom(lines[i], off)
            IN IF sl.panic THEN Panicked ELSE ParseU32(sl.val)

\* The five fields are all computed before any is looked at: a panic in one
\* ends the call; otherwise five Some give the record and anything else the
\* fixed error.
SvnInfoFields(lines) ==
    LET url == FieldStr(lines, LabelUrl, OffUrl)
        repository_root == FieldStr(lines, LabelRoot, OffRoot)
        last_changed_author == FieldStr(lines, LabelAuthor, OffAuthor)
        last_changed_rev == FieldRev(lines, LabelRev, OffRev)
        last_changed_date == FieldStr(lines, LabelDate, OffDate)
        all == <<url, repository_root, last_changed_author, last_changed_rev,
                 last_changed_date>>
    IN IF \E k \in 1..5 : all[k].tag = "Panic" THEN Panic
       ELSE IF \A k \in 1..5 : all[k].tag = "Some"
            THEN Ok([url |-> url.val,
                     repository_root |-> repository_root.val,
                     last_changed_author |-> last_changed_author.val,
                     last_changed_rev |-> last_changed_rev.val,
                     last_changed_date |-> last_changed_date.val])
       ELSE Err(ParseErrorText)

\* let output_str = ...; every field scans output_str.lines()
SvnInfoParse(output_str) == SvnInfoFields(Lines(output_str))

SvnInfoNew(out) ==
    IF ~out.spawned THEN SpawnFailed(out)
    ELSE IF ~Success(out.status) THEN CommandFailed(out)
    ELSE SvnInfoParse(FromUtf8Lossy(out.stdout))

---------------------------------------------------------------------------
(* SvnStatus::new *)

\* parts.get(k).map(|s| s.to_owned()).unwrap_or_default(), k counted from 0
GetOrDefault(parts, k) == IF k < Len(parts) THEN parts[k + 1] ELSE <<>>

\* A slip: the loop skipping every line of fewer than three parts.
RECURSIVE StatusLoopThree(_, _, _)
StatusLoopThree(lines, i, statuses) ==
    IF i > Len(lines) THEN statuses
    ELSE LET parts == Split(lines[i])
         IN IF Len(parts) < 3 THEN StatusLoopThree(lines, i + 1, statuses)
            ELSE StatusLoopThree(lines, i + 1,
                     Append(statuses,
                            [item |-> parts[2],
                             status |-> parts[1],
                             repository_status |-> GetOrDefault(parts, 2),
                             working_copy_status |-> GetOrDefault(parts, 3)]))

\* The loop over the lines: a line of fewer than two parts is skipped, any
\* other line pushes one entry.
RECURSIVE StatusLoop(_, _, _)
StatusLoop(lines, i, statuses) ==
    IF i > Len(lines) THEN statuses
    ELSE LET parts == Split(lines[i])
         IN IF Len(parts) < 2 THEN StatusLoop(lines, i + 1, statuses)
            ELSE StatusLoop(lines, i + 1,
                     Append(statuses,
                            [item |-> parts[2],
                             status |-> parts[1],
                             repository_status |-> GetOrDefault(parts, 2),
                             working_copy_status |-> GetOrDefault(parts, 3)]))

SvnStatusParse(output_str) == Ok(StatusLoop(Lines(output_str), 1, <<>>))

SvnStatusNew(out) ==
    IF ~out.spawned THEN SpawnFailed(out)
    ELSE IF ~Success(out.status) THEN CommandFailed(out)
    ELSE SvnStatusParse(FromUtf8Lossy(out.stdout))

---------------------------------------------------------------------------
(* What the subprocess can hand back *)

MaxExtra == 1
MaxStatusLines == 2

BoundedSeqs(S, n) == UNION {[1..k -> S] : k \in 0..n}

LF == <<"LF">>
CRLF == <<"CR", "LF">>

Unlines(lines, eol) == Concat([k \in 1..Len(lines) |-> lines[k] \o eol])

SpawnErrors == {"NotFound", "PermissionDenied"}
ExitStatuses == {0, 1}
StderrTexts == {<<>>, <<"s", "v", "n", ":", " ", "E", "FF", "LF">>}
PlainTexts == {<<>>, <<"r", "1", "LF">>, <<"r", "FF", "C3", "LF", "x">>}
Paths == {"wc"}
Urls == {"http://h/r"}

NoOutput ==
    [spawned |-> FALSE, error |-> "none", status |-> 0,
     stdout |-> <<>>, stderr |-> <<>>]

Outputs(stdouts) ==
    {[spawned |-> FALSE, error |-> e, status |-> 0,
      stdout |-> <<>>, stderr |-> <<>>] : e \in SpawnErrors}
    \cup
    {[spawned |-> TRUE, error |-> "none", status |-> s,
      stdout |-> o, stderr |-> e] :
        s \in ExitStatuses, o \in stdouts, e \in StderrTexts}

\* svn info texts: for each label no line or one line with one of a few
\* remainders, in svn's order, after at most MaxExtra further lines.
Choice(label, rems) == {<<>>} \cup {<<label \o r>> : r \in rems}

UrlRems == {<<"u">>}
RootRems == {<<"r">>}
AuthorRems == {<<>>, <<"a", "l">>, <<"C3", "A9">>}
RevRems ==
    {<<>>, <<"4", "2">>, <<"x", "4">>, <<"0", "+", "7">>,
     <<"9", "4", "2", "9", "4", "9", "6", "7", "2", "9", "6">>}
DateRems == {<<>>, <<"d", "1">>}

ExtraPool ==
    {LabelRev \o <<"1", "2", "3">>,
     LabelRev \o <<"x", "9">>,
     <<"u", "r", "l", ":", " ", "z", "FF">>,
     <<"x">> \o LabelDate \o <<"d", "9">>}

InfoBodies ==
    {e \o u \o r \o a \o v \o d :
        e \in BoundedSeqs(ExtraPool, MaxExtra),
        u \in Choice(LabelUrl, UrlRems),
        r \in Choice(LabelRoot, RootRems),
        a \in Choice(LabelAuthor, AuthorRems),
        v \in Choice(LabelRev, RevRems),
        d \in Choice(LabelDate, DateRems)}

InfoTexts == {Unlines(b, LF) : b \in InfoBodies}

\* svn status texts: at most MaxStatusLines lines, ended by LF or by CR LF,
\* the last one ended or not.
StatusPool ==
    {<<>>,
     <<"?">>,
     <<"M", " ", "a">>,
     <<"D", " ", "c", " ", "*">>,
     <<"A", " ", "b", " ", "*", " ", "c", " ", "d">>,
     <<"M", " ", " ", "a">>,
     <<"M", " ", " ", " ", " ", " ", " ", " ", "f", "o", "o", "/", "b", "a",
       "r", ".", "t", "x", "t", " ", " ", " ", " ", " ", " ", " ", " ", "*">>}

DropLast(s, n) == SubSeq(s, 1, Len(s) - n)

StatusTexts ==
    LET bodies == BoundedSeqs(StatusPool, MaxStatusLines)
    IN {Unlines(b, eol) : b \in bodies, eol \in {LF, CRLF}}
       \cup {DropLast(Unlines(b, eol), Len(eol)) :
                b \in bodies \ {<<>>}, eol \in {LF, CRLF}}

---------------------------------------------------------------------------
(* The calls.  Every call spawns svn once, waits for it and returns. *)

Init ==
    /\ pc = "idle"
    /\ op = "none"
    /\ runs = <<>>
    /\ output = NoOutput
    /\ result = NoResult

Version ==
    /\ pc = "idle"
    /\ \E out \in Outputs(PlainTexts) :
          /\ runs' = <<VersionArgv>>
          /\ output' = out
          /\ result' = VersionResult(out)
    /\ op' = "version"
    /\ pc' = "done"

Commit ==
    /\ pc = "idle"
    /\ \E path \in Paths, out \in Outputs(PlainTexts) :
          /\ runs' = <<CommitArgv(path)>>
          /\ output' = out
          /\ result' = CommitResult(out)
    /\ op' = "commit"
    /\ pc' = "done"

Checkout ==
    /\ pc = "idle"
    /\ \E url \in Urls, path \in Paths, out \in Outputs(PlainTexts) :
          /\ runs' = <<CheckoutArgv(url, path)>>
          /\ output' = out
          /\ result' = CheckoutResult(out)
    /\ op' = "checkout"
    /\ pc' = "done"

Update ==
    /\ pc = "idle"
    /\ \E path \in Paths, out \in Outputs(PlainTexts) :
          /\ runs' = <<UpdateArgv(path)>>
          /\ output' = out
          /\ result' = UpdateResult(out)
    /\ op' = "update"
    /\ pc' = "done"

Log ==
    /\ pc = "idle"
    /\ \E path \in Paths, out \in Outputs(PlainTexts) :
          /\ runs' = <<LogArgv(path)>>
          /\ output' = out
          /\ result' = LogResult(out)
    /\ op' = "log"
    /\ pc' = "done"

Info ==
    /\ pc = "idle"
    /\ \E path \in Paths, out \in Outputs(InfoTexts) :
          /\ runs' = <<InfoArgv(path)>>
          /\ output' = out
          /\ result' = SvnInfoNew(out)
    /\ op' = "info"
    /\ pc' = "done"

Status ==
    /\ pc = "idle"
    /\ \E path \in Paths, out \in Outputs(StatusTexts) :
          /\ runs' = <<StatusArgv(path)>>
          /\ output' = out
          /\ result' = SvnStatusNew(out)
    /\ op' = "status"
    /\ pc' = "done"

\* Nothing is kept between calls: the caller drops the result and the next
\* call starts from the same state as the first.
Drop ==
    /\ pc = "done"
    /\ pc' = "idle"
    /\ op' = "none"
    /\ runs' = <<>>
    /\ output' = NoOutput
    /\ result' = NoResult

Next ==
    \/ Version
    \/ Commit
    \/ Checkout
    \/ Update
    \/ Log
    \/ Info
    \/ Status
    \/ Drop

Spec == Init /\ [][Next]_vars

---------------------------------------------------------------------------
(* The vocabulary of the properties.  It is written from the words of the  *)
(* specification, not from the operators above: a line begins with a label *)
(* when its first bytes are the label's, and what follows the label is the *)
(* rest of the line.                                                       *)

Ran(name) == pc = "done" /\ op = name
Exited(name) == Ran(name) /\ output.spawned
ExitedZero(name) == Exited(name) /\ output.status = 0
ExitedNonZero(name) == Exited(name) /\ output.status # 0

\* The captured text of standard output.
CapturedText == FromUtf8Lossy(output.stdout)
CapturedLines == Lines(CapturedText)

Labels == <<LabelUrl, LabelRoot, LabelAuthor, LabelRev, LabelDate>>

BeginsWith(line, label) ==
    /\ Len(line) >= Len(label)
    /\ \A i \in 1..Len(label) : line[i] = label[i]

\* The index of the first line that begins with the label, 0 without one.
FirstLine(lines, label) ==
    IF \E k \in 1..Len(lines) : BeginsWith(lines[k], label)
    THEN CHOOSE k \in 1..Len(lines) :
             /\ BeginsWith(lines[k], label)
             /\ \A j \in 1..(k - 1) : ~BeginsWith(lines[j], label)
    ELSE 0

HasLine(lines, label) == FirstLine(lines, label) # 0

AfterLabel(line, label) ==
    SubSeq(line, Len(label) + 1, Len(line))

\* What follows the label on the first line that begins with it.
Remainder(lines, label) ==
    AfterLabel(lines[FirstLine(lines, label)], label)

\* A decimal number as it is written: digits, no sign, no leading zero, short
\* enough to fit a u32 whatever its digits.
IsPlainNumber(r) ==
    /\ r # <<>>
    /\ Len(r) < Len(U32MaxDigits)
    /\ \A i \in 1..Len(r) : r[i] \in Digits
    /\ (r[1] = "0" => Len(r) = 1)

\* A remainder that no reading takes for an unsigned integer: empty, or with
\* a byte that is neither a digit nor a sign.
IsNoNumber(r) ==
    r = <<>> \/ \E i \in 1..Len(r) : r[i] \notin Digits \cup {"+"}

ParseFailure == Err(ParseErrorText)

\* The lines that decide the result when the first match wins: for every
\* label its first line, in the order of the text, and no other line.
FirstLinesOnly(lines) ==
    LET first == {FirstLine(lines, Labels[n]) : n \in 1..5} \ {0}
        index == [k \in 1..Len(lines) |-> k]
        kept == SelectSeq(index, LAMBDA k : k \in first)
    IN [j \in 1..Len(kept) |-> lines[kept[j]]]

\* The reference reading of a status line: field k is made of the bytes that
\* are no space and have k - 1 spaces before them.
SpacesBefore(line, i) == Cardinality({j \in 1..(i - 1) : line[j] = " "})

FieldCount(line) == SpacesBefore(line, Len(line) + 1) + 1

Field(line, k) ==
    LET index == [i \in 1..Len(line) |-> i]
        in == SelectSeq(index,
                  LAMBDA i : line[i] # " " /\ SpacesBefore(line, i) = k - 1)
    IN [j \in 1..Len(in) |-> line[in[j]]]

FieldOrEmpty(line, k) == IF k <= FieldCount(line) THEN Field(line, k) ELSE <<>>

ReferenceEntry(line) ==
    [status |-> Field(line, 1),
     item |-> Field(line, 2),
     repository_status |-> FieldOrEmpty(line, 3),
     working_copy_status |-> FieldOrEmpty(line, 4)]

ReferenceStatus(lines) ==
    LET index == [k \in 1..Len(lines) |-> k]
        kept == SelectSeq(index, LAMBDA k : FieldCount(lines[k]) >= 2)
    IN [j \in 1..Len(kept) |-> ReferenceEntry(lines[kept[j]])]

RunOfSpacesLine ==
    <<"M", " ", " ", " ", " ", " ", " ", " ", "f", "o", "o", "/", "b", "a",
      "r", ".", "t", "x", "t", " ", " ", " ", " ", " ", " ", " ", " ", "*">>

FooBarTxt == <<"f", "o", "o", "/", "b", "a", "r", ".", "t", "x", "t">>

---------------------------------------------------------------------------
(* The properties *)

\* C1: when svn info exits with status zero and its text has a line for each
\* of the five labels, the revision line's remainder being a number, the
\* call returns a record and every field is what follows the label on its
\* line, nothing dropped and nothing added.
C1_FieldsAreTheRemainders ==
    ExitedZero("info")
    => \A lines \in {CapturedLines} :
           (/\ \A n \in 1..5 : HasLine(lines, Labels[n])
            /\ IsPlainNumber(Remainder(lines, LabelRev)))
           => /\ result.kind = "Ok"
              /\ result.val.url = Remainder(lines, LabelUrl)
              /\ result.val.repository_root = Remainder(lines, LabelRoot)
              /\ result.val.last_changed_author
                     = Remainder(lines, LabelAuthor)
              /\ result.val.last_changed_rev = Remainder(lines, LabelRev)
              /\ result.val.last_changed_date = Remainder(lines, LabelDate)

\* C2: when svn info exits with status zero and no line of its text begins
\* with one of the five labels, the call returns the error "Unable to parse
\* svn info output", whichever label it is and whatever the other lines are.
C2_MissingLabelIsParseFailure ==
    ExitedZero("info")
    => \A lines \in {CapturedLines} :
           (\E n \in 1..5 : ~HasLine(lines, Labels[n]))
           => result = ParseFailure

\* C3: when svn info exits with status zero and what follows the label on the
\* first revision line is no unsigned integer, the call returns the parse
\* failure and never a record.
C3_BadRevisionIsParseFailure ==
    ExitedZero("info")
    => \A lines \in {CapturedLines} :
           (HasLine(lines, LabelRev) /\ IsNoNumber(Remainder(lines, LabelRev)))
           => result = ParseFailure

\* C4: commit, checkout, update, log, info and status return the error that
\* carries the captured standard error text whenever the subprocess exits
\* with a status other than zero, whatever standard output holds.
C4_NonZeroExitGivesStderr ==
    \A name \in {"commit", "checkout", "update", "log", "info", "status"} :
        ExitedNonZero(name) => result = Err(FromUtf8Lossy(output.stderr))

\* C4 happens: svn info exits with a status other than zero after writing a
\* text that parses to a record, and the call returns the standard error
\* text, which the decoding changed.
C4_Witness ==
    /\ ExitedNonZero("info")
    /\ SvnInfoParse(CapturedText).kind = "Ok"
    /\ result.kind = "Err"
    /\ result.val # <<>>
    /\ result.val # output.stderr

\* C5: when svn status exits with status zero the call returns Ok, and the
\* entries are the reference result: the lines in order, each split at every
\* single space, the lines of fewer than two fields dropped, every other line
\* giving status, item and the third and fourth field or the empty string.
\* So there are as many entries as lines of two fields or more.
C5_StatusIsTheReference ==
    ExitedZero("status")
    => \A lines \in {CapturedLines} :
           /\ result.kind = "Ok"
           /\ result.val = ReferenceStatus(lines)
           /\ Len(result.val) =
                  Cardinality({k \in 1..Len(lines) :
                                  FieldCount(lines[k]) >= 2})

\* C5 happens: of two lines the first, of one field, is dropped and the
\* second gives an entry with four fields.
C5_Witness ==
    /\ ExitedZero("status")
    /\ \E lines \in {CapturedLines} :
          /\ Len(lines) = 2
          /\ Len(result.val) = 1
          /\ FieldCount(lines[1]) = 1
          /\ result.val[1].working_copy_status # <<>>

\* C6: the status line "M       foo/bar.txt        *", whose columns are
\* separated by runs of spaces, gives an entry with status "M" and item
\* "foo/bar.txt".
C6_RunOfSpacesGivesThePath ==
    (ExitedZero("status") /\ CapturedLines = <<RunOfSpacesLine>>)
    => /\ result.kind = "Ok"
       /\ Len(result.val) = 1
       /\ result.val[1].status = <<"M">>
       /\ result.val[1].item = FooBarTxt

\* The first match wins: the result of svn info is the result for the first
\* line of every label alone; no other line changes it.
FirstMatchWins ==
    ExitedZero("info")
    => \A lines \in {CapturedLines} :
           \A first \in {FirstLinesOnly(lines)} :
               result = SvnInfoFields(first)

\* A later line begins with the revision label and a number follows it.
LaterRevisionIsValid(lines) ==
    \E k \in (FirstLine(lines, LabelRev) + 1)..Len(lines) :
        /\ BeginsWith(lines[k], LabelRev)
        /\ IsPlainNumber(AfterLabel(lines[k], LabelRev))

\* C7: label matching is exact, at the start of the line and case sensitive,
\* and the first match wins: the result is decided by the first line of every
\* label, and so a first revision line with an invalid remainder gives no
\* record even when a later revision line is valid.
C7_FirstMatchDecides ==
    /\ FirstMatchWins
    /\ ExitedZero("info")
       => \A lines \in {CapturedLines} :
              (/\ HasLine(lines, LabelRev)
               /\ IsNoNumber(Remainder(lines, LabelRev))
               /\ LaterRevisionIsValid(lines))
              => result.kind # "Ok"

\* What the record holds: url and repository_root are what follows their
\* labels; the author, the revision and the date are read one byte further
\* on, so each loses the first byte of what follows its label.
RecordSkipsOneByte ==
    (ExitedZero("info") /\ result.kind = "Ok")
    => \A lines \in {CapturedLines} :
           /\ result.val.url = Remainder(lines, LabelUrl)
           /\ result.val.repository_root = Remainder(lines, LabelRoot)
           /\ result.val.last_changed_author
                  = Tail(Remainder(lines, LabelAuthor))
           /\ Some(result.val.last_changed_rev)
                  = ParseU32(Tail(Remainder(lines, LabelRev)))
           /\ result.val.last_changed_date
                  = Tail(Remainder(lines, LabelDate))

\* C8: commit, checkout, update and log run svn once and return Ok exactly
\* when it was spawned and exited with status zero; Ok carries nothing for
\* commit, checkout and update and the captured standard output for log.
C8_OneRunAndZeroIsSuccess ==
    \A name \in {"commit", "checkout", "update", "log"} :
        Ran(name)
        => /\ Len(runs) = 1
           /\ result.kind = "Ok" <=> (output.spawned /\ output.status = 0)
           /\ (result.kind = "Ok" /\ name # "log") => result.val = Unit
           /\ (result.kind = "Ok" /\ name = "log") => result.val = CapturedText

\* C8 happens: log returns a text that the decoding changed.
C8_Witness ==
    /\ ExitedZero("log")
    /\ result.kind = "Ok"
    /\ result.val # <<>>
    /\ result.val # output.stdout

\* C9: version, commit, checkout, update, log, info and status all return the
\* error that carries the description of the spawn error when svn cannot be
\* spawned; none of them aborts the caller.
C9_SpawnErrorIsReturned ==
    (pc = "done" /\ ~output.spawned)
    => result = Err(IoErrorToString(output.error))

\* C10: when svn info exits with status zero the call ends in one of two
\* ways, with a record of five fields or with the parse failure; it never
\* aborts, also when a line is a label and nothing more.
C10_InfoIsTotal ==
    ExitedZero("info")
    => \/ result = ParseFailure
       \/ /\ result.kind = "Ok"
          /\ DOMAIN result.val =
                 {"url", "repository_root", "last_changed_author",
                  "last_changed_rev", "last_changed_date"}

====
